---------------------------- MODULE Spec2Model ----------------------------
(***************************************************************************)
(* Model of the Cloud-Hypervisor domain manager, src/ch/ch_domain.c:       *)
(*   - thread-info reconciliation (virCHDomainRefreshThreadInfo) and the   *)
(*     per-vCPU tid accessors,                                             *)
(*   - the definition validation callbacks and their registration in       *)
(*     virCHDriverDomainDefParserConfig,                                   *)
(*   - machine-name resolution (virCHDomainGetMachineName).                *)
(* Each part has its own specification over the shared variables.          *)
(***************************************************************************)
EXTENDS Integers, Sequences, FiniteSets, TLC

VARIABLES
    \* ---- thread-info reconciliation --------------------------------------
    maxvcpus,      \* virDomainDefGetVcpusMax(vm->def)
    tid,           \* tid[i]: CH_DOMAIN_VCPU_PRIVATE(vcpu i)->tid
    status,        \* "idle" before the first call, "returned", or "crashed"
    ret,           \* <<value>> returned by the last virCHDomainRefreshThreadInfo, <<>> if none
    warn,          \* the VIR_WARN of the last call (the discrepancy report)
    wildAccess,    \* a non-existent slot's private state was dereferenced
    observed,      \* what the monitor reported in the last call (summary)
    lastReported,  \* per slot: tid of the latest vcpu-kind record for it, or 0
    \* ---- two calls on an unchanged monitor response ----------------------
    info,          \* the monitor's (unchanged) thread list
    ncalls,        \* number of completed calls on it
    afterFirst,    \* tid array and report as left by the first call
    \* ---- definition validation -------------------------------------------
    def,           \* the virDomainDef being parsed and validated
    host,          \* what the host answers: PATH lookup, capabilities, free pages
    dev,           \* the virDomainDeviceDef handed to the device callback
    pc,            \* where the parse/validate sequence stands
    vret,          \* return value of the last callback
    verr,          \* the error the last callback reported
    ran,           \* the callbacks run so far, in order
    passed,        \* the validation stages that have run and passed
    \* ---- machine name ----------------------------------------------------
    vm,            \* pid, def->id, def->name and driver->privileged
    systemd,       \* the naming service's answer per pid
    machineName,   \* what virCHDomainGetMachineName returned
    lastError,     \* the thread's pending error
    consulted      \* whether the naming service was asked

refreshVars == <<maxvcpus, tid, status, ret, warn, wildAccess, observed, lastReported>>
twiceVars == <<info, ncalls, afterFirst>>
validateVars == <<def, host, dev, pc, vret, verr, ran, passed>>
nameVars == <<vm, systemd, machineName, lastError, consulted>>
vars == <<refreshVars, twiceVars, validateVars, nameVars>>

(***************************************************************************)
(* Bounds of the model.                                                    *)
(***************************************************************************)
MaxVcpus == 2
MaxThreads == 2

\* OS thread ids the monitor may report: opaque positive values.
TidValues == {101, 102}

NULL == "NULL"
NoReport == [mismatch |-> FALSE, expected |-> 0, actual |-> 0]

(***************************************************************************)
(* Monitor thread records (virCHMonitorThreadInfo).                        *)
(***************************************************************************)
virCHThreadTypeVcpu == "vcpu"
virCHThreadTypeOther == "other"

\* Logical CPU indices a vcpu-kind record may carry: every declared slot of the
\* largest instance, and one index past it.
CpuIds == 0..MaxVcpus

ThreadInfos ==
    [type : {virCHThreadTypeVcpu}, cpuid : CpuIds, tid : TidValues]
        \cup [type : {virCHThreadTypeOther}, cpuid : {0}, tid : {0}]

RECURSIVE SeqsUpTo(_, _)
SeqsUpTo(S, n) ==
    IF n = 0 THEN {<<>>}
    ELSE LET shorter == SeqsUpTo(S, n - 1)
         IN  shorter \cup {Append(s, x) : s \in {t \in shorter : Len(t) = n - 1}, x \in S}

\* What virCHMonitorGetThreadInfo can hand back: any list of thread records,
\* the empty list included (a monitor that cannot be reached).
Responses == SeqsUpTo(ThreadInfos, MaxThreads)

Slots(maxv) == 0..(maxv - 1)

(***************************************************************************)
(* virDomainDefGetVcpu: the slot for a logical index, or NULL when the     *)
(* index is not a declared slot.  A pointer is <<slot>>, NULL is <<>>.     *)
(***************************************************************************)
NullVcpu == <<>>

virDomainDefGetVcpu(maxv, vcpu) ==
    IF vcpu >= maxv THEN NullVcpu ELSE <<vcpu>>

(***************************************************************************)
(* What dereferencing a NULL vcpu in CH_DOMAIN_VCPU_PRIVATE(vcpu)->tid can *)
(* do: the load traps and the process dies ("segv"), or the load returns   *)
(* whatever lies there and the store lands outside the slots ("wild").     *)
(***************************************************************************)
NullDerefOutcomes == {"segv", "wild"}

(***************************************************************************)
(* The loop's filter: a record that is not of vcpu kind is skipped.        *)
(***************************************************************************)
ThreadIsSkippedNever(t) == FALSE

ThreadIsSkipped(t) == t.type # virCHThreadTypeVcpu

(***************************************************************************)
(* vcpupriv->tid = vcpuInfo->tid, on the slot virDomainDefGetVcpu found.   *)
(***************************************************************************)
StoreTidAccumulating(tids, vcpu, t) == [tids EXCEPT ![vcpu] = tids[vcpu] + t.tid]

StoreTidInNextSlot(tids, vcpu, t) ==
    [tids EXCEPT ![(vcpu + 1) % Cardinality(DOMAIN tids)] = t.tid]

StoreTid(tids, vcpu, t) == [tids EXCEPT ![vcpu] = t.tid]

(***************************************************************************)
(* The for loop of virCHDomainRefreshThreadInfo, from record i on.  `ub`   *)
(* is what a NULL dereference does in this run.                            *)
(***************************************************************************)
RECURSIVE RefreshLoop(_, _, _, _, _, _, _)
RefreshLoop(threads, i, maxv, tids, ncpus, wild, ub) ==
    IF i > Len(threads)
    THEN [tid |-> tids, ncpus |-> ncpus, wild |-> wild, crashed |-> FALSE]
    ELSE IF ThreadIsSkipped(threads[i])
    THEN RefreshLoop(threads, i + 1, maxv, tids, ncpus, wild, ub)
    ELSE LET vcpu == virDomainDefGetVcpu(maxv, threads[i].cpuid)
         IN  IF vcpu = NullVcpu
             THEN IF ub = "segv"
                  THEN [tid |-> tids, ncpus |-> ncpus, wild |-> wild, crashed |-> TRUE]
                  ELSE RefreshLoop(threads, i + 1, maxv, tids, ncpus + 1, TRUE, ub)
             ELSE RefreshLoop(threads, i + 1, maxv, StoreTid(tids, vcpu[1], threads[i]),
                              ncpus + 1, wild, ub)

(***************************************************************************)
(* The body of virCHDomainRefreshThreadInfo on monitor response `threads`: *)
(* the loop, then the VIR_WARN on a count mismatch, then return 0.  A      *)
(* crashed call returns nothing.                                           *)
(***************************************************************************)
RefreshThreadInfo(threads, maxv, tids, ub) ==
    LET r == RefreshLoop(threads, 1, maxv, tids, 0, FALSE, ub)
    IN  [tid     |-> r.tid,
         wild    |-> r.wild,
         crashed |-> r.crashed,
         warn    |-> IF ~r.crashed /\ r.ncpus # maxv
                     THEN [mismatch |-> TRUE, expected |-> maxv, actual |-> r.ncpus]
                     ELSE NoReport,
         ret     |-> IF r.crashed THEN <<>> ELSE <<0>>]

\* Everything one call can do: one outcome per way a NULL dereference can go
\* (a single outcome when the call dereferences no NULL).
RefreshOutcomes(threads, maxv, tids) ==
    {RefreshThreadInfo(threads, maxv, tids, ub) : ub \in NullDerefOutcomes}

\* The discrepancy a report states: expected minus actual (0 when no warning).
Discrepancy(w) == w.expected - w.actual

(***************************************************************************)
(* Read accessors over the per-vCPU private state.                         *)
(***************************************************************************)
virCHDomainGetVcpuPid(vcpuid) == tid[vcpuid]

virCHDomainHasVcpuPids == \E i \in Slots(maxvcpus) : tid[i] > 0

(***************************************************************************)
(* What a monitor response says, read off the response itself.             *)
(***************************************************************************)
VcpuKind(threads) == {i \in DOMAIN threads : threads[i].type = virCHThreadTypeVcpu}

Observe(threads, maxv) ==
    LET ids == {threads[i].cpuid : i \in VcpuKind(threads)}
        n   == Cardinality(VcpuKind(threads))
    IN  [nthreads |-> Len(threads), nvcpu |-> n, cpuids |-> ids,
         covers |-> (n = maxv /\ ids = Slots(maxv))]

LatestTid(threads, slot, old) ==
    LET idx == {i \in VcpuKind(threads) : threads[i].cpuid = slot}
    IN  IF idx = {} THEN old
        ELSE threads[CHOOSE i \in idx : \A j \in idx : j <= i].tid

NothingObserved == [nthreads |-> 0, nvcpu |-> 0, cpuids |-> {}, covers |-> FALSE]

(***************************************************************************)
(* Definition validation.  A pointer is <<object>>, a NULL pointer <<>>.   *)
(***************************************************************************)
\* A reported error: its code, its message format and the format's arguments.
NoError == [code |-> "VIR_ERR_OK", msg |-> "", args |-> <<>>]

(***************************************************************************)
(* virCHDomainDefPostParseBasic: find a default emulator when none is set. *)
(***************************************************************************)
virCHDomainDefPostParseBasic(d, h) ==
    IF d.emulator = <<>>
    THEN IF h.programInPath = <<>>
         THEN [ret |-> 1, def |-> d,
               err |-> [code |-> "VIR_ERR_CONFIG_UNSUPPORTED",
                        msg |-> "No emulator found for cloud-hypervisor", args |-> <<>>]]
         ELSE [ret |-> 0, def |-> [d EXCEPT !.emulator = h.programInPath],
               err |-> NoError]
    ELSE [ret |-> 0, def |-> d, err |-> NoError]

\* virCHDriverGetCapabilities(driver, false): the capabilities, or NULL.
virCHDriverGetCapabilities(h) == h.caps

\* virCapabilitiesDomainSupported(caps, ostype, arch, virttype).
virCapabilitiesDomainSupported(caps, os) == os \in caps.guests

(***************************************************************************)
(* virCHDomainDefPostParse: the OS type/arch/virt type must be supported.  *)
(***************************************************************************)
virCHDomainDefPostParse(d, h) ==
    LET caps == virCHDriverGetCapabilities(h)
    IN  IF caps = <<>>
        THEN [ret |-> -1, def |-> d, err |-> NoError]
        ELSE IF ~virCapabilitiesDomainSupported(caps[1], d.os)
        THEN [ret |-> -1, def |-> d, err |-> NoError]
        ELSE [ret |-> 0, def |-> d, err |-> NoError]

(***************************************************************************)
(* chValidateDomainDef: only host-passthrough CPUs.  VIR_ERROR logs; no    *)
(* error is reported.                                                      *)
(***************************************************************************)
VIR_CPU_MODE_HOST_PASSTHROUGH == "host-passthrough"

CpuModes == {"custom", "host-model", VIR_CPU_MODE_HOST_PASSTHROUGH, "maximum"}

chValidateDomainDefAlsoHostModel(d) ==
    IF d.cpu # <<>> /\ d.cpu[1].mode \notin {VIR_CPU_MODE_HOST_PASSTHROUGH, "host-model"}
    THEN [ret |-> -1, def |-> d, err |-> NoError]
    ELSE [ret |-> 0, def |-> d, err |-> NoError]

chValidateDomainDef(d) ==
    IF d.cpu # <<>> /\ d.cpu[1].mode # VIR_CPU_MODE_HOST_PASSTHROUGH
    THEN [ret |-> -1, def |-> d, err |-> NoError]
    ELSE [ret |-> 0, def |-> d, err |-> NoError]

(***************************************************************************)
(* virCHDomainDefValidateMemory: huge-page admission.                      *)
(***************************************************************************)
\* virNumaGetPageInfo(-1, size, 0, NULL, &page_free): rc and the free count.
virNumaGetPageInfo(h, size) == h.pageInfo[size]

\* virDomainDefGetMemoryInitial(def)
virDomainDefGetMemoryInitial(d) == d.mem.initial

\* pages_needed = total_memory / hugepage_size (unsigned long long division)
PagesNeeded(total_memory, hugepage_size) == total_memory \div hugepage_size

virCHDomainDefValidateMemory(d, caps, h) ==
    LET mem == d.mem
    IN  IF mem.nhugepages = 0
        THEN [ret |-> 0, err |-> NoError]
        ELSE IF mem.nhugepages > 1
        THEN [ret |-> -1,
              err |-> [code |-> "VIR_ERR_CONFIG_UNSUPPORTED",
                       msg |-> "Multiple hugepages config is not supported in CH Driver",
                       args |-> <<>>]]
        ELSE IF mem.nosharepages
        THEN [ret |-> -1,
              err |-> [code |-> "VIR_ERR_CONFIG_UNSUPPORTED",
                       msg |-> "Disabling shared memory doesn't work with CH", args |-> <<>>]]
        ELSE LET hugepage_size == mem.hugepages[1].size
                 found == \E i \in 1..Len(caps.pagesSize) :
                              hugepage_size = caps.pagesSize[i]
             IN  IF ~found
                 THEN [ret |-> -1,
                       err |-> [code |-> "VIR_ERR_CONFIG_UNSUPPORTED",
                                msg |-> "Host does not suppot HugePage size",
                                args |-> <<hugepage_size>>]]
                 ELSE LET pi == virNumaGetPageInfo(h, hugepage_size)
                      IN  IF pi.rc < 0
                          THEN [ret |-> -1, err |-> NoError]
                          ELSE IF PagesNeeded(virDomainDefGetMemoryInitial(d), hugepage_size)
                                      > pi.page_free
                          THEN [ret |-> -1,
                                err |-> [code |-> "VIR_ERR_CONFIG_UNSUPPORTED",
                                         msg |-> "Host does not have enough free HugePages of size",
                                         args |-> <<hugepage_size>>]]
                          ELSE [ret |-> 0, err |-> NoError]

(***************************************************************************)
(* virCHDomainDefValidate: fetch the capabilities, then admit the memory.  *)
(***************************************************************************)
virCHDomainDefValidate(d, h) ==
    LET caps == virCHDriverGetCapabilities(h)
    IN  IF caps = <<>>
        THEN [ret |-> -1, def |-> d, err |-> NoError]
        ELSE LET m == virCHDomainDefValidateMemory(d, caps[1], h)
             IN  IF m.ret < 0
                 THEN [ret |-> -1, def |-> d, err |-> m.err]
                 ELSE [ret |-> 0, def |-> d, err |-> NoError]

(***************************************************************************)
(* chValidateDomainDeviceDef.                                              *)
(***************************************************************************)
AcceptedDeviceTypes ==
    {"VIR_DOMAIN_DEVICE_DISK", "VIR_DOMAIN_DEVICE_NET", "VIR_DOMAIN_DEVICE_MEMORY",
     "VIR_DOMAIN_DEVICE_VSOCK", "VIR_DOMAIN_DEVICE_CONTROLLER", "VIR_DOMAIN_DEVICE_CHR"}

UnsupportedDeviceTypes ==
    {"VIR_DOMAIN_DEVICE_LEASE", "VIR_DOMAIN_DEVICE_FS", "VIR_DOMAIN_DEVICE_INPUT",
     "VIR_DOMAIN_DEVICE_SOUND", "VIR_DOMAIN_DEVICE_VIDEO", "VIR_DOMAIN_DEVICE_HOSTDEV",
     "VIR_DOMAIN_DEVICE_WATCHDOG", "VIR_DOMAIN_DEVICE_GRAPHICS", "VIR_DOMAIN_DEVICE_HUB",
     "VIR_DOMAIN_DEVICE_REDIRDEV", "VIR_DOMAIN_DEVICE_SMARTCARD",
     "VIR_DOMAIN_DEVICE_MEMBALLOON", "VIR_DOMAIN_DEVICE_NVRAM", "VIR_DOMAIN_DEVICE_RNG",
     "VIR_DOMAIN_DEVICE_SHMEM", "VIR_DOMAIN_DEVICE_TPM", "VIR_DOMAIN_DEVICE_PANIC",
     "VIR_DOMAIN_DEVICE_IOMMU", "VIR_DOMAIN_DEVICE_AUDIO", "VIR_DOMAIN_DEVICE_CRYPTO"}

\* The values the switch sends to its last arms: the NONE and LAST sentinels and
\* any value that is no enumerator at all ("default:").
SentinelDeviceTypes ==
    {"VIR_DOMAIN_DEVICE_NONE", "VIR_DOMAIN_DEVICE_LAST", "OUT_OF_RANGE"}

DeviceTypes == AcceptedDeviceTypes \cup UnsupportedDeviceTypes \cup SentinelDeviceTypes

\* virDomainDeviceTypeToString: the type's name as the definition spells it.
virDomainDeviceTypeToString(type) == <<"device", type>>

\* virReportEnumRangeError(virDomainDeviceType, dev->type)
virReportEnumRangeError(typname, value) ==
    [code |-> "VIR_ERR_INTERNAL_ERROR", msg |-> "Unexpected enum value",
    args |-> <<value, typname>>]

VIR_DOMAIN_CHR_TYPE_PTY == "pty"
VIR_DOMAIN_CHR_TYPE_UNIX == "unix"

ChrTypes == {VIR_DOMAIN_CHR_TYPE_PTY, VIR_DOMAIN_CHR_TYPE_UNIX, "file", "tcp"}

\* The switch on dev->type: NoError when the type falls through to the checks below.
DeviceTypeSwitchAllowingFs(type) ==
    IF type \in AcceptedDeviceTypes \cup {"VIR_DOMAIN_DEVICE_FS"} THEN NoError
    ELSE IF type \in UnsupportedDeviceTypes
    THEN [code |-> "VIR_ERR_CONFIG_UNSUPPORTED",
          msg |-> "Cloud-Hypervisor doesn't support device",
          args |-> <<virDomainDeviceTypeToString(type)>>]
    ELSE IF type = "VIR_DOMAIN_DEVICE_NONE"
    THEN [code |-> "VIR_ERR_INTERNAL_ERROR", msg |-> "unexpected VIR_DOMAIN_DEVICE_NONE",
    args |-> <<>>]
    ELSE virReportEnumRangeError("virDomainDeviceType", type)

DeviceTypeSwitch(type) ==
    IF type \in AcceptedDeviceTypes THEN NoError
    ELSE IF type \in UnsupportedDeviceTypes
    THEN [code |-> "VIR_ERR_CONFIG_UNSUPPORTED",
          msg |-> "Cloud-Hypervisor doesn't support device",
          args |-> <<virDomainDeviceTypeToString(type)>>]
    ELSE IF type = "VIR_DOMAIN_DEVICE_NONE"
    THEN [code |-> "VIR_ERR_INTERNAL_ERROR", msg |-> "unexpected VIR_DOMAIN_DEVICE_NONE",
    args |-> <<>>]
    ELSE virReportEnumRangeError("virDomainDeviceType", type)

\* The console and serial checks that follow the switch.
ConsoleSerialChecksSerialUnchecked(d) ==
    IF d.nconsoles > 1
    THEN [code |-> "VIR_ERR_INTERNAL_ERROR",
          msg |-> "Only a single console can be configured for this domain", args |-> <<>>]
    ELSE IF d.nserials > 1
    THEN [code |-> "VIR_ERR_INTERNAL_ERROR",
          msg |-> "Only a single serial can be configured for this domain", args |-> <<>>]
    ELSE IF /\ d.nconsoles # 0
            /\ d.consoles[1].source.type # VIR_DOMAIN_CHR_TYPE_PTY
            /\ d.consoles[1].source.type # VIR_DOMAIN_CHR_TYPE_UNIX
    THEN [code |-> "VIR_ERR_INTERNAL_ERROR",
          msg |-> "Console works only in UNIX / PTY modes", args |-> <<>>]
    ELSE NoError

ConsoleSerialChecks(d) ==
    IF d.nconsoles > 1
    THEN [code |-> "VIR_ERR_INTERNAL_ERROR",
          msg |-> "Only a single console can be configured for this domain", args |-> <<>>]
    ELSE IF d.nserials > 1
    THEN [code |-> "VIR_ERR_INTERNAL_ERROR",
          msg |-> "Only a single serial can be configured for this domain", args |-> <<>>]
    ELSE IF /\ d.nconsoles # 0
            /\ d.consoles[1].source.type # VIR_DOMAIN_CHR_TYPE_PTY
            /\ d.consoles[1].source.type # VIR_DOMAIN_CHR_TYPE_UNIX
    THEN [code |-> "VIR_ERR_INTERNAL_ERROR",
          msg |-> "Console works only in UNIX / PTY modes", args |-> <<>>]
    ELSE IF /\ d.nserials # 0
            /\ d.serials[1].source.type # VIR_DOMAIN_CHR_TYPE_PTY
            /\ d.serials[1].source.type # VIR_DOMAIN_CHR_TYPE_UNIX
    THEN [code |-> "VIR_ERR_INTERNAL_ERROR",
          msg |-> "Serial works only in UNIX/PTY modes", args |-> <<>>]
    ELSE NoError

chValidateDomainDeviceDef(dv, d) ==
    LET sw == DeviceTypeSwitch(dv.type)
    IN  IF sw # NoError
        THEN [ret |-> -1, def |-> d, err |-> sw]
        ELSE LET cs == ConsoleSerialChecks(d)
             IN  IF cs # NoError
                 THEN [ret |-> -1, def |-> d, err |-> cs]
                 ELSE [ret |-> 0, def |-> d, err |-> NoError]

(***************************************************************************)
(* virCHDriverDomainDefParserConfig: the designated initializers in the    *)
(* order written; a later initializer of a field overrides an earlier one. *)
(***************************************************************************)
ParserConfigInitializers ==
    << <<"domainPostParseBasicCallback", "virCHDomainDefPostParseBasic">>,
       <<"domainPostParseCallback", "virCHDomainDefPostParse">>,
       <<"domainValidateCallback", "virCHDomainDefValidate">>,
       <<"deviceValidateCallback", "chValidateDomainDeviceDef">>,
       <<"domainValidateCallback", "chValidateDomainDef">> >>

ParserConfigFields ==
    {"domainPostParseBasicCallback", "domainPostParseCallback",
     "domainValidateCallback", "deviceValidateCallback"}

RECURSIVE ApplyInitializers(_, _, _)
ApplyInitializers(inits, i, cfg) ==
    IF i > Len(inits) THEN cfg
    ELSE ApplyInitializers(inits, i + 1, [cfg EXCEPT ![inits[i][1]] = inits[i][2]])

virCHDriverDomainDefParserConfig ==
    ApplyInitializers(ParserConfigInitializers, 1, [f \in ParserConfigFields |-> "NULL"])

\* Calling a registered domain-level callback by name.
CallDomainCallback(name, d, h) ==
    CASE name = "virCHDomainDefPostParseBasic" -> virCHDomainDefPostParseBasic(d, h)
      [] name = "virCHDomainDefPostParse" -> virCHDomainDefPostParse(d, h)
      [] name = "virCHDomainDefValidate" -> virCHDomainDefValidate(d, h)
      [] name = "chValidateDomainDef" -> chValidateDomainDef(d)

\* The validation stage each callback implements.
StageOf(name) ==
    CASE name = "virCHDomainDefPostParseBasic" -> "basic post-parse"
      [] name = "virCHDomainDefPostParse" -> "full post-parse"
      [] name = "chValidateDomainDef" -> "CPU-mode validation"
      [] name = "virCHDomainDefValidate" -> "memory/huge-page admission"
      [] name = "chValidateDomainDeviceDef" -> "device validation"

Stages ==
    <<"basic post-parse", "full post-parse", "CPU-mode validation",
      "memory/huge-page admission", "device validation">>

\* The devices the device callback is run on: the declared devices, then each
\* console and each serial as a character device.
AllDevices(d) ==
    d.devices
        \o [i \in 1..d.nconsoles |-> [type |-> "VIR_DOMAIN_DEVICE_CHR"]]
        \o [i \in 1..d.nserials |-> [type |-> "VIR_DOMAIN_DEVICE_CHR"]]

\* The device callback on each device in turn, stopping at the first failure.
RECURSIVE ValidateDevices(_, _, _)
ValidateDevices(devs, i, d) ==
    IF i > Len(devs) THEN [ret |-> 0, def |-> d, err |-> NoError, calls |-> i - 1]
    ELSE LET r == chValidateDomainDeviceDef(devs[i], d)
         IN  IF r.ret # 0 THEN [ret |-> r.ret, def |-> d, err |-> r.err, calls |-> i]
             ELSE ValidateDevices(devs, i + 1, d)

(***************************************************************************)
(* virCHDomainGetMachineName.                                              *)
(***************************************************************************)
\* virSystemdGetMachineNameByPID(pid): the name, or NULL with or without an error.
virSystemdGetMachineNameByPID(sd, pid) == sd[pid]

\* virDomainDriverGenerateMachineName(drivername, root, id, name, privileged)
virDomainDriverGenerateMachineName(drivername, root, id, name, privileged) ==
    <<IF privileged THEN "system" ELSE "session", drivername, id, name>>

virCHDomainGetMachineNameKeepingError(m, sd, le) ==
    LET asked == m.pid # 0
        ans == IF asked THEN virSystemdGetMachineNameByPID(sd, m.pid)
               ELSE [name |-> <<>>, err |-> NoError]
    IN  [consulted |-> asked,
         lastError |-> IF ans.err # NoError THEN ans.err ELSE le,
         ret |-> IF ans.name # <<>> THEN ans.name
                 ELSE <<virDomainDriverGenerateMachineName("ch", "NULL", m.id, m.name,
                                                           m.privileged)>>]

virCHDomainGetMachineName(m, sd, le) ==
    LET asked == m.pid # 0
        ans == IF asked THEN virSystemdGetMachineNameByPID(sd, m.pid)
               ELSE [name |-> <<>>, err |-> NoError]
    IN  [consulted |-> asked,
         lastError |-> IF asked /\ ans.name = <<>> THEN NoError
                       ELSE IF ans.err # NoError THEN ans.err ELSE le,
         ret |-> IF ans.name # <<>> THEN ans.name
                 ELSE <<virDomainDriverGenerateMachineName("ch", "NULL", m.id, m.name,
                                                           m.privileged)>>]

(***************************************************************************)
(* The parts of the state a specification does not use stay as they are    *)
(* here.                                                                   *)
(***************************************************************************)
DefaultDef ==
    [emulator |-> <<"/usr/bin/cloud-hypervisor">>,
     os |-> "hvm/x86_64/kvm",
     cpu |-> <<>>,
     mem |-> [nhugepages |-> 0, hugepages |-> <<>>, nosharepages |-> FALSE, initial |-> 0],
     nconsoles |-> 0, consoles |-> <<>>,
     nserials |-> 0, serials |-> <<>>,
     devices |-> <<>>]

DefaultHost ==
    [programInPath |-> <<>>,
     caps |-> <<[guests |-> {"hvm/x86_64/kvm"}, pagesSize |-> <<>>]>>,
     pageInfo |-> <<>>]

RefreshUnused ==
    /\ maxvcpus = 1
    /\ tid = [i \in Slots(1) |-> 0]
    /\ status = "idle"
    /\ ret = <<>>
    /\ warn = NoReport
    /\ wildAccess = FALSE
    /\ observed = NothingObserved
    /\ lastReported = [i \in Slots(1) |-> 0]

TwiceUnused ==
    /\ info = <<>>
    /\ ncalls = 0
    /\ afterFirst = NULL

ValidateUnused ==
    /\ def = DefaultDef
    /\ host = DefaultHost
    /\ dev = [type |-> "VIR_DOMAIN_DEVICE_NONE"]
    /\ pc = "unused"
    /\ vret = 0
    /\ verr = NoError
    /\ ran = <<>>
    /\ passed = {}

NameUnused ==
    /\ vm = [pid |-> 0, id |-> -1, name |-> "", privileged |-> FALSE]
    /\ systemd = <<>>
    /\ machineName = <<>>
    /\ lastError = NoError
    /\ consulted = FALSE

(***************************************************************************)
(* Specification SpecRefresh: an instance whose thread info is refreshed   *)
(* again and again, the monitor answering anything each time.              *)
(***************************************************************************)
InitRefresh ==
    /\ maxvcpus \in 1..MaxVcpus
    /\ tid = [i \in Slots(maxvcpus) |-> 0]
    /\ status = "idle"
    /\ ret = <<>>
    /\ warn = NoReport
    /\ wildAccess = FALSE
    /\ observed = NothingObserved
    /\ lastReported = [i \in Slots(maxvcpus) |-> 0]
    /\ TwiceUnused
    /\ ValidateUnused
    /\ NameUnused

virCHDomainRefreshThreadInfo ==
    /\ status # "crashed"
    /\ \E threads \in Responses :
          \E r \in RefreshOutcomes(threads, maxvcpus, tid) :
              /\ tid' = r.tid
              /\ status' = IF r.crashed THEN "crashed" ELSE "returned"
              /\ ret' = r.ret
              /\ warn' = r.warn
              /\ wildAccess' = r.wild
              /\ observed' = Observe(threads, maxvcpus)
              /\ lastReported' = [i \in Slots(maxvcpus) |->
                                     LatestTid(threads, i, lastReported[i])]
    /\ UNCHANGED <<maxvcpus, twiceVars, validateVars, nameVars>>

NextRefresh == virCHDomainRefreshThreadInfo

SpecRefresh == InitRefresh /\ [][NextRefresh]_vars

(***************************************************************************)
(* Specification SpecTwice: any instance state, any monitor response, and  *)
(* virCHDomainRefreshThreadInfo called on that unchanged response.         *)
(***************************************************************************)
MaxCalls == 2

InitTwice ==
    /\ maxvcpus \in 1..MaxVcpus
    /\ tid \in [Slots(maxvcpus) -> {0} \cup TidValues]
    /\ info \in Responses
    /\ ncalls = 0
    /\ afterFirst = NULL
    /\ status = "idle"
    /\ ret = <<>>
    /\ warn = NoReport
    /\ wildAccess = FALSE
    /\ observed = NothingObserved
    /\ lastReported = [i \in Slots(maxvcpus) |-> 0]
    /\ ValidateUnused
    /\ NameUnused

RefreshOnUnchangedMonitor ==
    /\ status # "crashed"
    /\ ncalls < MaxCalls
    /\ \E r \in RefreshOutcomes(info, maxvcpus, tid) :
          /\ tid' = r.tid
          /\ status' = IF r.crashed THEN "crashed" ELSE "returned"
          /\ ret' = r.ret
          /\ warn' = r.warn
          /\ wildAccess' = r.wild
          /\ afterFirst' = IF ncalls = 0
                           THEN [tid |-> r.tid, warn |-> r.warn]
                           ELSE afterFirst
    /\ ncalls' = ncalls + 1
    /\ UNCHANGED <<maxvcpus, info, observed, lastReported, validateVars, nameVars>>

NextTwice == RefreshOnUnchangedMonitor

SpecTwice == InitTwice /\ [][NextTwice]_vars

(***************************************************************************)
(* Specification SpecMemory: virCHDomainDefValidateMemory on any memory    *)
(* configuration and any host answer.  Sizes and memory are in units of    *)
(* the smallest huge page's half (a page is 2 or 3 units).                 *)
(***************************************************************************)
MaxMemory == 6
MaxFree == 3

PageSizes == {2, 3}

HostPageSizeLists == {<<>>, <<2>>, <<3>>, <<2, 3>>}

PageInfos == [rc : {0}, page_free : 0..MaxFree] \cup [rc : {-1}, page_free : {0}]

MemConfigs ==
    {[nhugepages |-> Len(hp), hugepages |-> hp, nosharepages |-> ns, initial |-> im] :
        hp \in SeqsUpTo([size : PageSizes], 2), ns \in BOOLEAN, im \in 0..MaxMemory}

InitMemory ==
    /\ def \in {[DefaultDef EXCEPT !.mem = m] : m \in MemConfigs}
    /\ host \in {[DefaultHost EXCEPT !.caps = <<[guests |-> {"hvm/x86_64/kvm"}, pagesSize |-> ps]>>,
                                     !.pageInfo = pi] :
                    ps \in HostPageSizeLists, pi \in [PageSizes -> PageInfos]}
    /\ dev = [type |-> "VIR_DOMAIN_DEVICE_NONE"]
    /\ pc = "input"
    /\ vret = 0
    /\ verr = NoError
    /\ ran = <<>>
    /\ passed = {}
    /\ RefreshUnused
    /\ TwiceUnused
    /\ NameUnused

ValidateMemory ==
    /\ pc = "input"
    /\ LET r == virCHDomainDefValidateMemory(def, host.caps[1], host)
       IN  /\ vret' = r.ret
           /\ verr' = r.err
    /\ pc' = "done"
    /\ ran' = <<"virCHDomainDefValidateMemory">>
    /\ UNCHANGED <<def, host, dev, passed, refreshVars, twiceVars, nameVars>>

NextMemory == ValidateMemory

SpecMemory == InitMemory /\ [][NextMemory]_vars

(***************************************************************************)
(* Specification SpecDevice: chValidateDomainDeviceDef on any device type  *)
(* and any consoles and serials.                                           *)
(***************************************************************************)
MaxChardevs == 2

Chardevs == SeqsUpTo([source : [type : ChrTypes]], MaxChardevs)

InitDevice ==
    /\ dev \in [type : DeviceTypes]
    /\ def \in {[DefaultDef EXCEPT !.nconsoles = Len(cs), !.consoles = cs,
                                   !.nserials = Len(ss), !.serials = ss] :
                   cs \in Chardevs, ss \in Chardevs}
    /\ host = DefaultHost
    /\ pc = "input"
    /\ vret = 0
    /\ verr = NoError
    /\ ran = <<>>
    /\ passed = {}
    /\ RefreshUnused
    /\ TwiceUnused
    /\ NameUnused

ValidateDevice ==
    /\ pc = "input"
    /\ LET r == chValidateDomainDeviceDef(dev, def)
       IN  /\ vret' = r.ret
           /\ verr' = r.err
    /\ pc' = "done"
    /\ ran' = <<"chValidateDomainDeviceDef">>
    /\ UNCHANGED <<def, host, dev, passed, refreshVars, twiceVars, nameVars>>

NextDevice == ValidateDevice

SpecDevice == InitDevice /\ [][NextDevice]_vars

(***************************************************************************)
(* Specification SpecPipeline: a definition is parsed and validated with   *)
(* the callbacks registered in virCHDriverDomainDefParserConfig: the basic *)
(* post-parse callback, the post-parse callback, the domain validation     *)
(* callback, then the device validation callback on every device.  A       *)
(* callback that fails rejects the definition and nothing more runs.       *)
(***************************************************************************)
MaxDevices == 2

PipelineDeviceTypes ==
    {"VIR_DOMAIN_DEVICE_DISK", "VIR_DOMAIN_DEVICE_NET", "VIR_DOMAIN_DEVICE_VIDEO"}

PipelineMems ==
    {DefaultDef.mem,
     [nhugepages |-> 1, hugepages |-> <<[size |-> 2]>>, nosharepages |-> FALSE, initial |-> 4],
     [nhugepages |-> 1, hugepages |-> <<[size |-> 2]>>, nosharepages |-> FALSE, initial |-> 6],
     [nhugepages |-> 2, hugepages |-> <<[size |-> 2], [size |-> 3]>>,
      nosharepages |-> FALSE, initial |-> 4]}

PipelineHosts ==
    {[programInPath |-> pp, caps |-> c,
      pageInfo |-> [s \in PageSizes |-> [rc |-> 0, page_free |-> 2]]] :
        pp \in {<<>>, <<"/usr/bin/cloud-hypervisor">>},
        c \in {<<>>, <<[guests |-> {"hvm/x86_64/kvm"}, pagesSize |-> <<2, 3>>]>>}}

PipelineDefs ==
    {[emulator |-> e, os |-> o, cpu |-> c, mem |-> m,
      nconsoles |-> Len(cs), consoles |-> cs, nserials |-> 0, serials |-> <<>>,
      devices |-> ds] :
        e \in {<<>>, <<"/opt/ch/cloud-hypervisor">>},
        o \in {"hvm/x86_64/kvm", "xen/x86_64/xen"},
        c \in {<<>>} \cup {<<[mode |-> md]>> : md \in CpuModes},
        m \in PipelineMems,
        cs \in {<<>>, <<[source |-> [type |-> "pty"]]>>, <<[source |-> [type |-> "file"]]>>},
        ds \in SeqsUpTo([type : PipelineDeviceTypes], MaxDevices)}

InitPipeline ==
    /\ def \in PipelineDefs
    /\ host \in PipelineHosts
    /\ dev = [type |-> "VIR_DOMAIN_DEVICE_NONE"]
    /\ pc = "postParseBasic"
    /\ vret = 0
    /\ verr = NoError
    /\ ran = <<>>
    /\ passed = {}
    /\ RefreshUnused
    /\ TwiceUnused
    /\ NameUnused

\* One domain-level step: call the callback registered in `field`.
RunDomainCallback(field, next) ==
    LET cb == virCHDriverDomainDefParserConfig[field]
        r == CallDomainCallback(cb, def, host)
    IN  /\ def' = r.def
        /\ vret' = r.ret
        /\ verr' = r.err
        /\ ran' = Append(ran, cb)
        /\ passed' = IF r.ret = 0 THEN passed \cup {StageOf(cb)} ELSE passed
        /\ pc' = IF r.ret = 0 THEN next ELSE "rejected"
        /\ UNCHANGED <<host, dev, refreshVars, twiceVars, nameVars>>

RunPostParseBasic ==
    /\ pc = "postParseBasic"
    /\ RunDomainCallback("domainPostParseBasicCallback", "postParse")

RunPostParse ==
    /\ pc = "postParse"
    /\ RunDomainCallback("domainPostParseCallback", "domainValidate")

RunDomainValidate ==
    /\ pc = "domainValidate"
    /\ RunDomainCallback("domainValidateCallback", "deviceValidate")

RunDeviceValidate ==
    /\ pc = "deviceValidate"
    /\ LET cb == virCHDriverDomainDefParserConfig["deviceValidateCallback"]
           devs == AllDevices(def)
           r == ValidateDevices(devs, 1, def)
       IN  /\ vret' = r.ret
           /\ verr' = r.err
           /\ dev' = IF r.calls = 0 THEN dev ELSE devs[r.calls]
           /\ ran' = ran \o [i \in 1..r.calls |-> cb]
           /\ passed' = IF r.ret = 0 THEN passed \cup {StageOf(cb)} ELSE passed
           /\ pc' = IF r.ret = 0 THEN "admitted" ELSE "rejected"
    /\ UNCHANGED <<def, host, refreshVars, twiceVars, nameVars>>

NextPipeline ==
    \/ RunPostParseBasic
    \/ RunPostParse
    \/ RunDomainValidate
    \/ RunDeviceValidate

SpecPipeline == InitPipeline /\ [][NextPipeline]_vars

(***************************************************************************)
(* Specification SpecCpu: chValidateDomainDef on any definition.           *)
(***************************************************************************)
InitCpu ==
    /\ def \in PipelineDefs
    /\ host \in PipelineHosts
    /\ dev = [type |-> "VIR_DOMAIN_DEVICE_NONE"]
    /\ pc = "input"
    /\ vret = 0
    /\ verr = NoError
    /\ ran = <<>>
    /\ passed = {}
    /\ RefreshUnused
    /\ TwiceUnused
    /\ NameUnused

ValidateCpu ==
    /\ pc = "input"
    /\ LET r == chValidateDomainDef(def)
       IN  /\ vret' = r.ret
           /\ verr' = r.err
    /\ pc' = "done"
    /\ ran' = <<"chValidateDomainDef">>
    /\ UNCHANGED <<def, host, dev, passed, refreshVars, twiceVars, nameVars>>

NextCpu == ValidateCpu

SpecCpu == InitCpu /\ [][NextCpu]_vars

(***************************************************************************)
(* Specification SpecName: virCHDomainGetMachineName on any instance and   *)
(* any state of the naming service.                                        *)
(***************************************************************************)
Pids == {4242, 4343}

NamingAnswers ==
    {[name |-> <<>>, err |-> NoError],
     [name |-> <<>>, err |-> [code |-> "VIR_ERR_SYSTEM_ERROR", msg |-> "naming service",
     args |-> <<>>]],
     [name |-> <<"machine-ch-7-guest">>, err |-> NoError]}

InitName ==
    /\ vm \in [pid : {0} \cup Pids, id : {-1, 1, 7}, name : {"guest", "web"},
               privileged : BOOLEAN]
    /\ systemd \in [Pids -> NamingAnswers]
    /\ machineName = <<>>
    /\ lastError = NoError
    /\ consulted = FALSE
    /\ pc = "input"
    /\ def = DefaultDef
    /\ host = DefaultHost
    /\ dev = [type |-> "VIR_DOMAIN_DEVICE_NONE"]
    /\ vret = 0
    /\ verr = NoError
    /\ ran = <<>>
    /\ passed = {}
    /\ RefreshUnused
    /\ TwiceUnused

GetMachineName ==
    /\ pc = "input"
    /\ LET r == virCHDomainGetMachineName(vm, systemd, lastError)
       IN  /\ machineName' = r.ret
           /\ lastError' = r.lastError
           /\ consulted' = r.consulted
    /\ pc' = "done"
    /\ UNCHANGED <<vm, systemd, def, host, dev, vret, verr, ran, passed,
                   refreshVars, twiceVars>>

NextName == GetMachineName

SpecName == InitName /\ [][NextName]_vars

CeilDiv(a, b) == (a + b - 1) \div b

AdmissionCase ==
    /\ pc = "done"
    /\ def.mem.nhugepages = 1
    /\ ~def.mem.nosharepages
    /\ \E i \in DOMAIN host.caps[1].pagesSize :
           host.caps[1].pagesSize[i] = def.mem.hugepages[1].size
    /\ host.pageInfo[def.mem.hugepages[1].size].rc >= 0

(***************************************************************************)
(* C1: for a definition that requests exactly one huge-page size the host  *)
(* supports, does not disable shared pages, and whose free-page query      *)
(* succeeds, admission fails if and only if                                *)
(* ceil(initialMemory / pageSize) > freePages.                             *)
(***************************************************************************)
C1_AdmissionFailsIffCeilExceedsFree ==
    AdmissionCase =>
        ((vret < 0) <=>
            (CeilDiv(def.mem.initial, def.mem.hugepages[1].size)
                 > host.pageInfo[def.mem.hugepages[1].size].page_free))

StageIndex(stage) == CHOOSE k \in DOMAIN Stages : Stages[k] = stage

(***************************************************************************)
(* C2: the callbacks run in the order basic post-parse, full post-parse,   *)
(* CPU-mode validation, memory/huge-page admission, device validation; a   *)
(* failing stage is the last to run; and a definition is admitted only if  *)
(* all five stages have run and passed.                                    *)
(***************************************************************************)
C2_AdmittedOnlyIfAllFiveStagesPassed ==
    /\ \A i, j \in DOMAIN ran :
           i < j => StageIndex(StageOf(ran[i])) <= StageIndex(StageOf(ran[j]))
    /\ pc = "rejected" => (vret # 0 /\ StageOf(ran[Len(ran)]) \notin passed)
    /\ pc = "admitted" => passed = {Stages[k] : k \in DOMAIN Stages}

OnPtyOrUnix(chr) ==
    chr.source.type \in {VIR_DOMAIN_CHR_TYPE_PTY, VIR_DOMAIN_CHR_TYPE_UNIX}

ConsolesAndSerialsFine ==
    /\ def.nconsoles <= 1
    /\ def.nserials <= 1
    /\ \A i \in 1..def.nconsoles : OnPtyOrUnix(def.consoles[i])
    /\ \A i \in 1..def.nserials : OnPtyOrUnix(def.serials[i])

RejectedAsUnsupported ==
    /\ vret = -1
    /\ verr.code = "VIR_ERR_CONFIG_UNSUPPORTED"
    /\ verr.args = <<virDomainDeviceTypeToString(dev.type)>>

(***************************************************************************)
(* C3 as stated: with at most one console and one serial, each on PTY or   *)
(* UNIX, a device is accepted iff its type is on the allow-list, and every *)
(* other device type value is rejected with VIR_ERR_CONFIG_UNSUPPORTED and *)
(* a message naming the type.                                              *)
(***************************************************************************)
C3_EveryOtherTypeUnsupported ==
    (pc = "done" /\ ConsolesAndSerialsFine) =>
        /\ (vret = 0) <=> (dev.type \in AcceptedDeviceTypes)
        /\ dev.type \notin AcceptedDeviceTypes => RejectedAsUnsupported

(***************************************************************************)
(* C3 as amended: with at most one console and one serial, each on PTY or  *)
(* UNIX, a device is accepted iff its type is on the allow-list; each of   *)
(* the twenty other device types (lease ... crypto) is rejected with       *)
(* VIR_ERR_CONFIG_UNSUPPORTED and a message naming the type; the value     *)
(* NONE is rejected with VIR_ERR_INTERNAL_ERROR, and LAST or a value that  *)
(* is no enumerator is rejected with an enum range error, not with         *)
(* VIR_ERR_CONFIG_UNSUPPORTED.                                             *)
(***************************************************************************)
C3_AllowListAndRejections ==
    (pc = "done" /\ ConsolesAndSerialsFine) =>
        /\ (vret = 0) <=> (dev.type \in AcceptedDeviceTypes)
        /\ dev.type \in UnsupportedDeviceTypes => RejectedAsUnsupported
        /\ dev.type = "VIR_DOMAIN_DEVICE_NONE" =>
               (vret = -1 /\ verr.code = "VIR_ERR_INTERNAL_ERROR")
        /\ dev.type \in {"VIR_DOMAIN_DEVICE_LAST", "OUT_OF_RANGE"} =>
               (vret = -1 /\ verr = virReportEnumRangeError("virDomainDeviceType", dev.type)
                          /\ verr.code # "VIR_ERR_CONFIG_UNSUPPORTED")

C3_Witness ==
    /\ pc = "done"
    /\ ConsolesAndSerialsFine
    /\ def.nconsoles = 1
    /\ dev.type = "VIR_DOMAIN_DEVICE_RNG"
    /\ RejectedAsUnsupported

(***************************************************************************)
(* C4: for every allow-listed device being validated: more than one        *)
(* console, or more than one serial, fails with VIR_ERR_INTERNAL_ERROR; a  *)
(* single console or serial on a transport other than PTY or UNIX fails    *)
(* with VIR_ERR_INTERNAL_ERROR; otherwise validation passes.               *)
(***************************************************************************)
C4_ConsoleSerialConstraints ==
    (pc = "done" /\ dev.type \in AcceptedDeviceTypes) =>
        /\ (def.nconsoles > 1 \/ def.nserials > 1) =>
               (vret = -1 /\ verr.code = "VIR_ERR_INTERNAL_ERROR")
        /\ (def.nconsoles = 1 /\ ~OnPtyOrUnix(def.consoles[1])) =>
               (vret = -1 /\ verr.code = "VIR_ERR_INTERNAL_ERROR")
        /\ (def.nserials = 1 /\ ~OnPtyOrUnix(def.serials[1])) =>
               (vret = -1 /\ verr.code = "VIR_ERR_INTERNAL_ERROR")
        /\ ConsolesAndSerialsFine => (vret = 0 /\ verr = NoError)

C4_Witness ==
    /\ pc = "done"
    /\ dev.type = "VIR_DOMAIN_DEVICE_VSOCK"
    /\ def.nconsoles = 1
    /\ OnPtyOrUnix(def.consoles[1])
    /\ def.nserials = 1
    /\ def.serials[1].source.type = "tcp"
    /\ vret = -1
    /\ verr.code = "VIR_ERR_INTERNAL_ERROR"

(***************************************************************************)
(* C5: chValidateDomainDef fails for every CPU mode other than             *)
(* host-passthrough and passes for host-passthrough (and for a definition  *)
(* with no CPU element, which has no mode); whatever else the definition   *)
(* and the host hold, the CPU element alone fixes the result.              *)
(***************************************************************************)
C5_OnlyHostPassthrough ==
    pc = "done" =>
        /\ (def.cpu # <<>> /\ def.cpu[1].mode # VIR_CPU_MODE_HOST_PASSTHROUGH) => vret = -1
        /\ (def.cpu # <<>> /\ def.cpu[1].mode = VIR_CPU_MODE_HOST_PASSTHROUGH) => vret = 0
        /\ def.cpu = <<>> => vret = 0

C5_Witness ==
    /\ pc = "done"
    /\ def.cpu # <<>>
    /\ def.cpu[1].mode = "host-model"
    /\ vret = -1
    /\ def.mem.nhugepages = 2
    /\ def.emulator = <<>>

FallbackName ==
    <<virDomainDriverGenerateMachineName("ch", "NULL", vm.id, vm.name, vm.privileged)>>

ServiceHasRecord == vm.pid # 0 /\ systemd[vm.pid].name # <<>>

(***************************************************************************)
(* C8: virCHDomainGetMachineName never returns NULL; with pid 0 the naming *)
(* service is not consulted; when it is not consulted or has no record     *)
(* (with or without an error) the result is the name generated from "ch",  *)
(* the id, the name and the privilege flag, and no error is left pending;  *)
(* the service's answer is returned exactly when pid is non-zero and the   *)
(* service has a record.                                                   *)
(***************************************************************************)
C8_MachineNameFallsBack ==
    pc = "done" =>
        /\ machineName # <<>>
        /\ consulted <=> (vm.pid # 0)
        /\ ~ServiceHasRecord => (machineName = FallbackName /\ lastError = NoError)
        /\ ServiceHasRecord => machineName = systemd[vm.pid].name
        /\ machineName \in {FallbackName} \cup {systemd[p].name : p \in Pids}

C8_Witness ==
    /\ pc = "done"
    /\ vm.pid # 0
    /\ consulted
    /\ systemd[vm.pid].name = <<>>
    /\ systemd[vm.pid].err # NoError
    /\ machineName = FallbackName
    /\ lastError = NoError

(***************************************************************************)
(* C6: whenever virCHDomainRefreshThreadInfo returns, it returns 0 and the *)
(* discrepancy it reports is maxvcpus minus the number of vcpu-kind        *)
(* threads in the monitor's response (other threads are not counted); the  *)
(* discrepancy is 0 when the response holds exactly maxvcpus vcpu-kind     *)
(* threads with distinct indices covering [0, maxvcpus), and it is         *)
(* maxvcpus, still with return value 0, when the response is empty.        *)
(***************************************************************************)
C6_DiscrepancyIsMaxMinusVcpuThreads ==
    status = "returned" =>
        /\ ret = <<0>>
        /\ Discrepancy(warn) = maxvcpus - observed.nvcpu
        /\ warn.mismatch <=> (observed.nvcpu # maxvcpus)
        /\ observed.covers => (~warn.mismatch /\ Discrepancy(warn) = 0)
        /\ observed.nthreads = 0 => (warn.mismatch /\ Discrepancy(warn) = maxvcpus)

C6_Witness ==
    /\ status = "returned"
    /\ warn.mismatch
    /\ observed.nvcpu >= 1
    /\ observed.nvcpu < observed.nthreads
    /\ ret = <<0>>

(***************************************************************************)
(* C7: two calls of virCHDomainRefreshThreadInfo in succession on the same *)
(* monitor response: after the second call every slot's tid, and the       *)
(* discrepancy report, are what the first call left.                       *)
(***************************************************************************)
C7_RefreshIdempotent ==
    (ncalls >= 2 /\ status = "returned") =>
        /\ tid = afterFirst.tid
        /\ warn = afterFirst.warn

C7_Witness ==
    /\ ncalls = 2
    /\ status = "returned"
    /\ VcpuKind(info) # {}
    /\ \E i \in Slots(maxvcpus) :
           tid[i] # 0 /\ \A k \in VcpuKind(info) : info[k].cpuid # i
    /\ \E i \in VcpuKind(info) : info[i].cpuid < maxvcpus /\ tid[info[i].cpuid] = info[i].tid

(***************************************************************************)
(* C9: when the monitor reports a vcpu-kind thread whose logical index is  *)
(* not a declared slot (index >= maxvcpus), the refresh touches no         *)
(* non-existent slot's private state and still completes.                  *)
(***************************************************************************)
C9_UndeclaredIndexIsSkipped ==
    (\E c \in observed.cpuids : c >= maxvcpus) =>
        (status = "returned" /\ ~wildAccess)

TidsAreReported ==
    status # "crashed" =>
        /\ \A i \in Slots(maxvcpus) : tid[i] \in {0, lastReported[i]}
        /\ (\A i \in Slots(maxvcpus) : lastReported[i] <= 0) =>
               /\ ~virCHDomainHasVcpuPids
               /\ \A i \in Slots(maxvcpus) : virCHDomainGetVcpuPid(i) = 0

UnreportedSlotsKept ==
    \A i \in Slots(maxvcpus) : i \notin observed'.cpuids => tid'[i] = tid[i]

(***************************************************************************)
(* C10: while the instance lives, each slot's tid is 0 or the tid of the   *)
(* most recent vcpu-kind record for that slot's index; a refresh leaves    *)
(* every slot unchanged whose index is not among the response's vcpu-kind  *)
(* records; and as long as no positive tid was reported for any slot,      *)
(* virCHDomainGetVcpuPid is 0 for every slot and virCHDomainHasVcpuPids is *)
(* false.                                                                  *)
(***************************************************************************)
C10_NoFabricatedTid == []TidsAreReported /\ [][UnreportedSlotsKept]_vars

C10_Witness ==
    /\ status = "returned"
    /\ maxvcpus = 2
    /\ tid[0] \in TidValues
    /\ tid[1] = 0
    /\ observed.cpuids = {0}
    /\ virCHDomainHasVcpuPids

====
